---- MODULE Spec2Model ----
(***************************************************************************)
(* A model of function_app.py: get_cal, the HTTP handler that combines     *)
(* several remote calendar feeds into one, and merge_recurring_sets, which *)
(* folds events that share a RELATED-TO value into one event with RDATEs.  *)
(*                                                                         *)
(* One invocation of get_cal is one behaviour.  The inputs (configuration, *)
(* request parameters, the feeds' events) are chosen in Init and never     *)
(* change; pc is the handler's position.                                   *)
(*                                                                         *)
(* Optional values are sequences of length 0 or 1.  Instants are records   *)
(* [kind, v]: a datetime counts minutes, a date counts days.  Strings that *)
(* are hashed or concatenated are sequences of tokens.                     *)
(***************************************************************************)
EXTENDS Integers, Sequences, FiniteSets, TLC

VARIABLES
    calendars,      \* CalendarSources, each with the events its Url serves
    showParam,      \* req.params 'show' as sent
    hideParam,      \* req.params 'hide' as sent
    today,          \* datetime.now(UTC).date(), a day number
    days_history,   \* CalendarDaysHistory
    pc,             \* position in get_cal / merge_recurring_sets
    show, hide,     \* the parsed parameters
    ci,             \* index of the calendar of the for loop of line 55
    ej,             \* index of the component of the for loop of line 74
    temp_cal,       \* the dict of line 53, in insertion order
    combined_cal,   \* the events added to combined_cal so far
    new_cal,        \* merge_recurring_sets: the events added to new_cal
    grouped,        \* merge_recurring_sets: the keys of grouped, in order
    gi,             \* index of the group of the for loop of line 253
    mi,             \* index of the member of the for loop of line 259
    all_dtstarts,   \* the list of line 258
    gen,            \* the rrule iterator being drained by list() at line 264
    response,       \* what the invocation answered, once pc = "done"
    fetched,        \* history: the sources requests.get was called for
    failed,         \* history: the source whose fetch or parse failed, if any
    log             \* history: what became of each component walked

vars == <<calendars, showParam, hideParam, today, days_history, pc, show, hide,
          ci, ej, temp_cal, combined_cal, new_cal, grouped, gi, mi,
          all_dtstarts, gen, response, fetched, failed, log>>

inputs == <<calendars, showParam, hideParam, today, days_history>>

----------------------------------------------------------------------------
(* Bounds of the model.                                                    *)

\* The most sources of a request scenario.
MaxSources == 2
\* The most events of a two-feed scenario.
MaxEvents == 2
\* The largest COUNT of a recurrence rule.
MaxCount == 2
\* The last minute a datetime can hold (datetime.MAXYEAR): an rrule iterator
\* yields increasing datetimes and ends when the next one would pass it.
MaxTime == 4
\* The largest retention window, in days.
MaxWindow == 2
\* The day the invocation runs.
Today == 10

(* Constants of the program.                                               *)
ErrorStatus == 500
OkStatus == 200
DefaultMinutes == 5
DayMinutes == 1440

----------------------------------------------------------------------------
(* Values.                                                                 *)

None == <<>>
Some(x) == <<x>>
Val(o) == o[1]

DateTime(m) == [kind |-> "datetime", v |-> m]
Date(d) == [kind |-> "date", v |-> d]

IsDateTime(o) == o # None /\ Val(o).kind = "datetime"
IsDate(o) == o # None /\ Val(o).kind = "date"

\* dt_val.date() for a datetime, dt_val itself for a date.
DateOf(t) == IF t.kind = "datetime" THEN t.v \div DayMinutes ELSE t.v

Range(s) == {s[k] : k \in 1..Len(s)}

RECURSIVE SeqsUpTo(_, _)
SeqsUpTo(S, n) ==
    IF n = 0 THEN {<<>>}
    ELSE LET shorter == SeqsUpTo(S, n - 1)
         IN  shorter \cup {Append(s, x) : s \in shorter, x \in S}

MinOf(S) == CHOOSE x \in S : \A y \in S : x <= y

\* sorted(...) of a set of integers.
RECURSIVE SortedSeq(_)
SortedSeq(S) ==
    IF S = {} THEN <<>>
    ELSE LET m == MinOf(S) IN <<m>> \o SortedSeq(S \ {m})

RECURSIVE Flatten(_)
Flatten(ss) == IF ss = <<>> THEN <<>> ELSE Head(ss) \o Flatten(Tail(ss))

----------------------------------------------------------------------------
(* Identifiers.                                                            *)

GuidUIDs == {"g1", "g2"}

\* guid_regex.match(uid): the strings g1 and g2 stand for well-formed GUIDs.
IsGuid(u) == Len(u) = 1 /\ u[1] \in GuidUIDs

\* create_uid: uuid5 of the sha1 of the string, taken as collision free.
create_uid(s) == <<"uuid5">> \o s

\* The UID of lines 123-134.
FinalUid(cal, uid) ==
    IF cal.MakeUnique THEN create_uid(<<ToString(Val(cal.Id)), "-">> \o uid)
    ELSE IF IsGuid(uid) THEN uid
    ELSE create_uid(uid)

----------------------------------------------------------------------------
(* The inputs: source descriptors, raw events, request parameters.         *)

Source(id, dur, pad, uniq, dedup, feed) ==
    [Id |-> id, Duration |-> dur, PadStartMinutes |-> pad,
     MakeUnique |-> uniq, FilterDuplicates |-> dedup, feed |-> feed]

\* A VEVENT as served: the properties get_cal and merge_recurring_sets read.
\* rrule is [interval, count], count 0 for a rule with no COUNT and no UNTIL;
\* rdate holds one sequence of instants per RDATE line.
RawEvent(uid, start, dtend, dur, rrule, related, seq, rdate) ==
    [uid |-> uid, start |-> start, dtend |-> dtend, duration |-> dur,
     rrule |-> rrule, related |-> related, seq |-> seq, rdate |-> rdate]

Rule(interval, count) == [interval |-> interval, count |-> count]

\* A request parameter: not sent, sent empty (ids = {}), or a list of ids.
Param(supplied, ids) == [supplied |-> supplied, ids |-> ids]
Absent == Param(FALSE, {})

PlainEvent == RawEvent(<<"x1">>, Some(DateTime(0)), None, None, None, None,
                       FALSE, <<>>)

\* Request scenarios: up to MaxSources sources, some without an Id, every
\* combination of show and hide.
RequestParams ==
    {Param(s, ids) : s \in BOOLEAN, ids \in SUBSET (1..MaxSources)}
        \ {Param(FALSE, ids) : ids \in (SUBSET (1..MaxSources)) \ {{}}}

RequestCalendars ==
    UNION {
        { [k \in 1..n |->
              Source(IF k \in withId THEN Some(k) ELSE None, None, None,
                     FALSE, FALSE, <<PlainEvent>>)] : withId \in SUBSET (1..n) }
        : n \in 1..MaxSources }

InitRequest ==
    /\ calendars \in RequestCalendars
    /\ showParam \in RequestParams
    /\ hideParam \in RequestParams
    /\ today = Today
    /\ days_history = 0

\* Transformation scenarios: one source, one event, around the retention
\* boundary today - window.
TransformEvents(window) ==
    { RawEvent(<<"x1">>,
               IF hasStart
                 THEN Some(IF kind = "date" THEN Date(Today - window + off - 1)
                           ELSE DateTime((Today - window + off) * DayMinutes + 540))
                 ELSE None,
               IF hasEnd
                 THEN Some(IF kind = "date" THEN Date(Today - window + off)
                           ELSE DateTime((Today - window + off) * DayMinutes + 600))
                 ELSE None,
               dur,
               rrule, None, FALSE, <<>>)
      : hasStart \in BOOLEAN, hasEnd \in BOOLEAN, kind \in {"date", "datetime"},
        off \in {-1, 0, 1}, dur \in {None, Some(60)},
        rrule \in {None, Some(Rule(1, 0))} }

InitTransform ==
    /\ showParam = Absent
    /\ hideParam = Absent
    /\ today = Today
    /\ days_history \in 0..MaxWindow
    /\ \E dur \in {None, Some(30)}, pad \in {None, Some(10)},
          e \in TransformEvents(days_history) :
          calendars = <<Source(Some(1), dur, pad, FALSE, FALSE, <<e>>)>>

\* Two-feed scenarios: events that share UIDs and RELATED-TO values, with
\* counted and uncounted rules whose expansions overlap.
MergeEvents ==
    { RawEvent(<<u>>, Some(DateTime(t[1])), None, None, t[2], Some("r1"),
               t[2] # None, <<>>)
      : u \in GuidUIDs,
        t \in { <<2, None>>, <<0, Some(Rule(1, MaxCount))>>,
                <<1, Some(Rule(2, 0))>> } }
    \cup { RawEvent(<<u>>, Some(DateTime(2)), None, None, None, None,
                    FALSE, <<>>) : u \in GuidUIDs }
    \cup { RawEvent(<<"g1">>, Some(Date(0)), None, None, None, Some("r1"),
                    FALSE, <<>>),
           RawEvent(<<"g2">>, None, Some(DateTime(3)), None, None, Some("r1"),
                    FALSE, <<>>),
           RawEvent(<<"x1">>, Some(DateTime(3)), None, None, None, Some("r1"),
                    TRUE, << <<DateTime(9)>> >>) }

MergeFlags == { <<TRUE, TRUE, FALSE>>, <<TRUE, FALSE, FALSE>>,
                <<FALSE, FALSE, FALSE>>, <<TRUE, TRUE, TRUE>> }

InitMerge ==
    /\ showParam = Absent
    /\ hideParam = Absent
    /\ today = Today
    /\ days_history = 0
    /\ \E evs \in SeqsUpTo(MergeEvents, MaxEvents), f \in MergeFlags :
       \E k \in 0..Len(evs) :
          calendars =
            << Source(Some(1), None, None, FALSE, f[1], SubSeq(evs, 1, k)),
               Source(Some(2), None, None, f[3], f[2],
                      SubSeq(evs, k + 1, Len(evs))) >>

NoResponse == [kind |-> "none", status |-> 0, id |-> None, body |-> <<>>]

Init ==
    /\ InitRequest \/ InitTransform \/ InitMerge
    /\ pc = "start"
    /\ show = None
    /\ hide = None
    /\ ci = 1
    /\ ej = 1
    /\ temp_cal = <<>>
    /\ combined_cal = <<>>
    /\ new_cal = <<>>
    /\ grouped = <<>>
    /\ gi = 1
    /\ mi = 1
    /\ all_dtstarts = <<>>
    /\ gen = None
    /\ response = NoResponse
    /\ fetched = <<>>
    /\ failed = None
    /\ log = <<>>

----------------------------------------------------------------------------
(* get_cal: parameters and source selection.                               *)

\* Lines 28-36: an empty string is falsy, so a parameter sent empty is None.
ParseParam(p) == IF p.supplied /\ p.ids # {} THEN Some(p.ids) ELSE None

\* Line 62.
Selected(cal) ==
    \/ show = None /\ hide = None
    \/ show = None /\ Val(cal.Id) \notin Val(hide)
    \/ show # None /\ Val(cal.Id) \in Val(show)

ErrorResponse(kind, id) ==
    [kind |-> kind, status |-> ErrorStatus, id |-> id, body |-> <<>>]

\* An exception get_cal does not catch: the Functions host answers for it.
Unhandled == ErrorResponse("Unhandled", None)

Finish(r) ==
    /\ response' = r
    /\ pc' = "done"

\* Lines 28-41.
ReadParams ==
    /\ pc = "start"
    /\ show' = ParseParam(showParam)
    /\ hide' = ParseParam(hideParam)
    /\ IF show' # None /\ hide' # None
         THEN Finish(ErrorResponse("ParamError", None))
         ELSE pc' = "loop" /\ UNCHANGED response
    /\ UNCHANGED <<inputs, ci, ej, temp_cal, combined_cal, new_cal, grouped, gi,
                   mi, all_dtstarts, gen, fetched, failed, log>>

\* Lines 55-62: the next calendar, its Id check and its selection.
CheckSource ==
    /\ pc = "loop"
    /\ IF ci > Len(calendars)
         THEN pc' = "flush" /\ UNCHANGED <<ci, response>>
         ELSE IF calendars[ci].Id = None
           THEN Finish(ErrorResponse("ConfigError", None)) /\ UNCHANGED ci
           ELSE IF Selected(calendars[ci])
             THEN pc' = "fetch" /\ UNCHANGED <<ci, response>>
             ELSE ci' = ci + 1 /\ UNCHANGED <<pc, response>>
    /\ UNCHANGED <<inputs, show, hide, ej, temp_cal, combined_cal, new_cal,
                   grouped, gi, mi, all_dtstarts, gen, fetched, failed, log>>

\* FetchSource, were a failed fetch skipped instead of answered.
FetchSourceSkipsFailure ==
    /\ pc = "fetch"
    /\ fetched' = Append(fetched, ci)
    /\ \E ok \in BOOLEAN :
          IF ok THEN pc' = "parse" /\ UNCHANGED <<ci, failed>>
          ELSE pc' = "loop" /\ ci' = ci + 1 /\ failed' = Some(ci)
    /\ UNCHANGED <<inputs, show, hide, ej, temp_cal, combined_cal, new_cal,
                   grouped, gi, mi, all_dtstarts, gen, response, log>>

\* Lines 63-67: requests.get and raise_for_status; the network decides.
FetchSource ==
    /\ pc = "fetch"
    /\ fetched' = Append(fetched, ci)
    /\ \E ok \in BOOLEAN :
          IF ok THEN pc' = "parse" /\ UNCHANGED <<response, failed>>
          ELSE /\ Finish(ErrorResponse("FetchError", calendars[ci].Id))
               /\ failed' = Some(ci)
    /\ UNCHANGED <<inputs, show, hide, ci, ej, temp_cal, combined_cal, new_cal,
                   grouped, gi, mi, all_dtstarts, gen, log>>

\* Lines 69-72: Calendar.from_ical; the body served decides.
ParseSource ==
    /\ pc = "parse"
    /\ \E ok \in BOOLEAN :
          IF ok THEN pc' = "events" /\ ej' = 1 /\ UNCHANGED <<response, failed>>
          ELSE /\ Finish(ErrorResponse("ParseError", calendars[ci].Id))
               /\ failed' = Some(ci)
               /\ UNCHANGED ej
    /\ UNCHANGED <<inputs, show, hide, ci, temp_cal, combined_cal, new_cal,
                   grouped, gi, mi, all_dtstarts, gen, fetched, log>>

----------------------------------------------------------------------------
(* get_cal: one component of a feed.                                       *)

\* HistoryDrop, were the boundary day itself dropped.
HistoryDropInclusive(e) ==
    /\ e.dtend # None
    /\ days_history # 0
    /\ DateOf(Val(e.dtend)) <= today - days_history
    /\ e.rrule = None

\* Lines 75-86: the component is older than the retention window.
HistoryDrop(e) ==
    /\ e.dtend # None
    /\ days_history # 0
    /\ DateOf(Val(e.dtend)) < today - days_history
    /\ e.rrule = None

\* Lines 98-109: the fixed duration, else a default where the component has
\* neither DTEND nor DURATION.  Setting DURATION leaves DTEND in place.
ResolveDuration(cal, e) ==
    IF cal.Duration # None /\ IsDateTime(e.start)
      THEN [drop |-> FALSE, ev |-> [e EXCEPT !.duration = cal.Duration]]
    ELSE IF e.dtend = None /\ e.duration = None
      THEN IF IsDateTime(e.start)
             THEN [drop |-> FALSE,
                   ev |-> [e EXCEPT !.duration = Some(DefaultMinutes)]]
           ELSE IF IsDate(e.start)
             THEN [drop |-> FALSE,
                   ev |-> [e EXCEPT !.duration = Some(DayMinutes)]]
           ELSE [drop |-> TRUE, ev |-> e]
    ELSE [drop |-> FALSE, ev |-> e]

\* Event.duration, read at line 115 after DTSTART has moved.  With only a DTEND
\* it is DTEND - DTSTART; with only a DURATION it is that DURATION.  With both,
\* icalendar either refuses the event (InvalidCalendar) or answers the
\* DURATION, by its version; it refuses a DTEND that is a date when DTSTART
\* is a datetime.  Each outcome is [raise, d].
DurationRead(e) ==
    IF e.dtend # None /\ Val(e.dtend).kind # Val(e.start).kind
      THEN {[raise |-> TRUE, d |-> 0]}
    ELSE IF e.dtend # None /\ e.duration # None
      THEN {[raise |-> TRUE, d |-> 0], [raise |-> FALSE, d |-> Val(e.duration)]}
    ELSE IF e.duration # None
      THEN {[raise |-> FALSE, d |-> Val(e.duration)]}
    ELSE {[raise |-> FALSE, d |-> Val(e.dtend).v - Val(e.start).v]}

\* Lines 112-115: the outcomes of padding, each [raise, ev].
Pad(cal, e) ==
    IF cal.PadStartMinutes # None /\ IsDateTime(e.start)
      THEN LET p == Val(cal.PadStartMinutes)
               moved == [e EXCEPT !.start = Some(DateTime(Val(e.start).v - p))]
           IN  { [raise |-> r.raise,
                  ev |-> [moved EXCEPT !.duration = Some(r.d + p)]]
                 : r \in DurationRead(moved) }
      ELSE {[raise |-> FALSE, ev |-> e]}

\* Lines 118-189, for the properties modelled: the UID, and the RDATE lines
\* flattened into one.
Canonical(cal, e) ==
    [e EXCEPT !.uid = FinalUid(cal, e.uid),
              !.rdate = IF e.rdate = <<>> THEN <<>> ELSE <<Flatten(e.rdate)>>]

\* DictPut, were the first event of a key kept.
DictPutKeepsFirst(d, ev) ==
    IF \E k \in 1..Len(d) : d[k].uid = ev.uid THEN d ELSE Append(d, ev)

\* temp_cal[uid] = event: a dict keeps the position of a key it already holds.
DictPut(d, ev) ==
    IF \E k \in 1..Len(d) : d[k].uid = ev.uid
      THEN [k \in 1..Len(d) |-> IF d[k].uid = ev.uid THEN ev ELSE d[k]]
      ELSE Append(d, ev)

\* Stage, were every source's events put through the dict.
StageAlwaysDict(cal, ev, temp, combined) ==
    [temp |-> IF \E k \in 1..Len(temp) : temp[k].uid = ev.uid
                THEN [k \in 1..Len(temp) |->
                        IF temp[k].uid = ev.uid THEN ev ELSE temp[k]]
                ELSE Append(temp, ev),
     combined |-> combined]

\* Lines 195-200: where the transformed event goes, as [temp, combined].
Stage(cal, ev, temp, combined) ==
    IF cal.FilterDuplicates
      THEN [temp |-> DictPut(temp, ev), combined |-> combined]
      ELSE [temp |-> temp, combined |-> Append(combined, ev)]

LogEntry(outcome, uid) ==
    [ref |-> <<ci, ej>>, outcome |-> outcome, uid |-> uid,
     dedup |-> calendars[ci].FilterDuplicates]

\* Lines 74-200: the body of the loop over ical.walk("VEVENT").
ProcessEvent ==
    /\ pc = "events"
    /\ ej <= Len(calendars[ci].feed)
    /\ LET cal == calendars[ci]
           e == calendars[ci].feed[ej]
           res == ResolveDuration(cal, e)
       IN  IF HistoryDrop(e)
             THEN /\ log' = Append(log, LogEntry("filtered", e.uid))
                  /\ ej' = ej + 1
                  /\ UNCHANGED <<pc, response, temp_cal, combined_cal>>
           ELSE IF res.drop
             THEN /\ log' = Append(log, LogEntry("dropped", e.uid))
                  /\ ej' = ej + 1
                  /\ UNCHANGED <<pc, response, temp_cal, combined_cal>>
           ELSE \E padded \in Pad(cal, res.ev) :
                  IF padded.raise
                    THEN /\ log' = Append(log, LogEntry("raised", e.uid))
                         /\ Finish(Unhandled)
                         /\ UNCHANGED <<ej, temp_cal, combined_cal>>
                    ELSE LET ev == [ref |-> <<ci, ej>>]
                                     @@ Canonical(cal, padded.ev)
                             st == Stage(cal, ev, temp_cal, combined_cal)
                         IN  /\ log' = Append(log,
                                   LogEntry(IF cal.FilterDuplicates
                                              THEN "staged" ELSE "appended",
                                            ev.uid))
                             /\ temp_cal' = st.temp
                             /\ combined_cal' = st.combined
                             /\ ej' = ej + 1
                             /\ UNCHANGED <<pc, response>>
    /\ UNCHANGED <<inputs, show, hide, ci, new_cal, grouped, gi, mi,
                   all_dtstarts, gen, fetched, failed>>

\* Line 74: the feed is exhausted; on to the next calendar.
EndOfFeed ==
    /\ pc = "events"
    /\ ej > Len(calendars[ci].feed)
    /\ ci' = ci + 1
    /\ pc' = "loop"
    /\ UNCHANGED <<inputs, show, hide, ej, temp_cal, combined_cal, new_cal,
                   grouped, gi, mi, all_dtstarts, gen, response, fetched, failed, log>>

\* Lines 203-205.
Flush ==
    /\ pc = "flush"
    /\ combined_cal' = combined_cal \o temp_cal
    /\ pc' = "merge"
    /\ UNCHANGED <<inputs, show, hide, ci, ej, temp_cal, new_cal, grouped, gi,
                   mi, all_dtstarts, gen, response, fetched, failed, log>>

----------------------------------------------------------------------------
(* merge_recurring_sets.                                                   *)

\* Lines 239-248: the keys of grouped, in the order setdefault met them.
RECURSIVE GroupKeys(_, _)
GroupKeys(evs, seen) ==
    IF evs = <<>> THEN <<>>
    ELSE LET r == Head(evs).related
         IN  IF r = None \/ Val(r) \in seen THEN GroupKeys(Tail(evs), seen)
             ELSE <<Val(r)>> \o GroupKeys(Tail(evs), seen \cup {Val(r)})

HasKey(ev, key) == ev.related = Some(key)
HasNoKey(ev) == ev.related = None

\* grouped[key]: the components with that RELATED-TO, in calendar order.
Members(cal, key) == SelectSeq(cal, LAMBDA ev : HasKey(ev, key))

\* Lines 232-251: partition by RELATED-TO; the others go to new_cal first.
MergePartition ==
    /\ pc = "merge"
    /\ grouped' = GroupKeys(combined_cal, {})
    /\ new_cal' = SelectSeq(combined_cal, HasNoKey)
    /\ gi' = 1
    /\ pc' = "group"
    /\ UNCHANGED <<inputs, show, hide, ci, ej, temp_cal, combined_cal, mi,
                   all_dtstarts, gen, response, fetched, failed, log>>

\* Lines 253-258: the next group; a group of one passes through.
NextGroup ==
    /\ pc = "group"
    /\ IF gi > Len(grouped)
         THEN /\ pc' = "respond"
              /\ UNCHANGED <<new_cal, gi, mi, all_dtstarts>>
         ELSE LET evs == Members(combined_cal, grouped[gi])
              IN  IF Len(evs) = 1
                    THEN /\ new_cal' = Append(new_cal, evs[1])
                         /\ gi' = gi + 1
                         /\ UNCHANGED <<pc, mi, all_dtstarts>>
                    ELSE /\ all_dtstarts' = <<>>
                         /\ mi' = 1
                         /\ pc' = "member"
                         /\ UNCHANGED <<new_cal, gi>>
    /\ UNCHANGED <<inputs, show, hide, ci, ej, temp_cal, combined_cal, grouped,
                   gen, response, fetched, failed, log>>

\* rrulestr(rule_str, dtstart=dt0): the iterator before its first value.  A
\* date dtstart is taken as midnight of that day.
RuleIter(rule, dt0) ==
    [next |-> IF dt0.kind = "date" THEN dt0.v * DayMinutes ELSE dt0.v,
     interval |-> rule.interval,
     counted |-> rule.count # 0,
     left |-> rule.count,
     out |-> <<>>]

\* The iterator has no further value: COUNT values were given, or the next
\* one is past the last datetime.
Exhausted(g) == (g.counted /\ g.left = 0) \/ g.next > MaxTime

\* Advance, were an uncounted rule's iterator never to move on.
AdvanceStalls(g) ==
    IF g.counted
      THEN [g EXCEPT !.next = g.next + g.interval, !.left = g.left - 1,
                     !.out = Append(g.out, DateTime(g.next))]
      ELSE g

\* One value drawn by list().
Advance(g) ==
    [g EXCEPT !.next = g.next + g.interval,
              !.left = IF g.counted THEN g.left - 1 ELSE g.left,
              !.out = Append(g.out, DateTime(g.next))]

\* Lines 259-267: the next member of the group: without DTSTART decoded()
\* raises KeyError; with an RRULE its expansion starts; else its DTSTART is
\* its one occurrence.
NextMember ==
    /\ pc = "member"
    /\ LET evs == Members(combined_cal, grouped[gi])
       IN  /\ mi <= Len(evs)
           /\ IF evs[mi].start = None
                THEN Finish(Unhandled) /\ UNCHANGED <<mi, all_dtstarts, gen>>
              ELSE IF evs[mi].rrule # None
                THEN /\ gen' = Some(RuleIter(Val(evs[mi].rrule),
                                             Val(evs[mi].start)))
                     /\ pc' = "expand"
                     /\ UNCHANGED <<mi, all_dtstarts, response>>
              ELSE /\ all_dtstarts' = Append(all_dtstarts, Val(evs[mi].start))
                   /\ mi' = mi + 1
                   /\ UNCHANGED <<pc, gen, response>>
    /\ UNCHANGED <<inputs, show, hide, ci, ej, temp_cal, combined_cal, new_cal,
                   grouped, gi, fetched, failed, log>>

\* Lines 264-265: list() draws the iterator's values one at a time, and the
\* list extends all_dtstarts once the iterator ends.
ExpandStep ==
    /\ pc = "expand"
    /\ LET g == Val(gen)
       IN  IF Exhausted(g)
             THEN /\ all_dtstarts' = all_dtstarts \o g.out
                  /\ gen' = None
                  /\ mi' = mi + 1
                  /\ pc' = "member"
             ELSE /\ gen' = Some(Advance(g))
                  /\ UNCHANGED <<pc, mi, all_dtstarts>>
    /\ UNCHANGED <<inputs, show, hide, ci, ej, temp_cal, combined_cal, new_cal,
                   grouped, gi, response, fetched, failed, log>>

\* sorted() compares a date with a datetime: TypeError.
MixedKinds(all) == \E a \in Range(all), b \in Range(all) : a.kind # b.kind

\* UniqueDates, were the list attached as collected.
UniqueDatesAsCollected(all) == all

\* Line 269: sorted(set(all_dtstarts)), for instants of one kind.
UniqueDates(all) ==
    LET kind == IF all = <<>> THEN "datetime" ELSE all[1].kind
        sorted == SortedSeq({t.v : t \in Range(all)})
    IN  [k \in 1..Len(sorted) |-> [kind |-> kind, v |-> sorted[k]]]

\* Line 257.
Representative(evs) == evs[1]

\* Lines 271-274: RRULE and SEQUENCE popped; add() puts the new RDATE after
\* any the event holds.
Merged(base, dates) ==
    [base EXCEPT !.rrule = None, !.seq = FALSE,
                 !.rdate = Append(base.rdate, dates)]

\* Lines 268-275: the group is walked; its one event joins new_cal.
FinishGroup ==
    /\ pc = "member"
    /\ LET evs == Members(combined_cal, grouped[gi])
       IN  /\ mi > Len(evs)
           /\ IF MixedKinds(all_dtstarts)
                THEN Finish(Unhandled) /\ UNCHANGED <<new_cal, gi>>
                ELSE /\ new_cal' = Append(new_cal,
                            Merged(Representative(evs),
                                   UniqueDates(all_dtstarts)))
                     /\ gi' = gi + 1
                     /\ pc' = "group"
                     /\ UNCHANGED response
    /\ UNCHANGED <<inputs, show, hide, ci, ej, temp_cal, combined_cal, grouped,
                   mi, all_dtstarts, gen, fetched, failed, log>>

\* Lines 208-218: the merged calendar is the response.
Respond ==
    /\ pc = "respond"
    /\ Finish([kind |-> "Calendar", status |-> OkStatus, id |-> None,
               body |-> new_cal])
    /\ UNCHANGED <<inputs, show, hide, ci, ej, temp_cal, combined_cal, new_cal,
                   grouped, gi, mi, all_dtstarts, gen, fetched, failed, log>>

----------------------------------------------------------------------------

Next ==
    \/ ReadParams
    \/ CheckSource
    \/ FetchSource
    \/ ParseSource
    \/ ProcessEvent
    \/ EndOfFeed
    \/ Flush
    \/ MergePartition
    \/ NextGroup
    \/ NextMember
    \/ ExpandStep
    \/ FinishGroup
    \/ Respond

Spec == Init /\ [][Next]_vars

\* get_cal runs on one thread to its return: a step that can be taken is.
FairSpec == Spec /\ WF_vars(Next)

----------------------------------------------------------------------------
(* What the claims are stated in.                                          *)

Done == pc = "done"
Answered(kind) == Done /\ response.kind = kind

Refs(evs) == {evs[k].ref : k \in 1..Len(evs)}

\* The component a log entry or an event came from, and its source.
RawOf(ref) == calendars[ref[1]].feed[ref[2]]
SourceOf(ref) == calendars[ref[1]]

\* temp_cal has been added to combined_cal.
Flushed ==
    \/ pc \in {"merge", "group", "member", "expand", "respond"}
    \/ Answered("Calendar")

\* A later component was staged under the same final UID.
Superseded(k) ==
    \E m \in (k + 1)..Len(log) :
        log[m].outcome = "staged" /\ log[m].uid = log[k].uid

\* The event is in a RELATED-TO group of two or more and is not its first.
Folded(ref) ==
    \E k \in 1..Len(combined_cal) :
        /\ combined_cal[k].ref = ref
        /\ combined_cal[k].related # None
        /\ \E m \in 1..(k - 1) :
              combined_cal[m].related = combined_cal[k].related

\* The occurrences of a member: its rule's, from its own start up to the
\* last datetime, or its start alone.
Occurrences(ev) ==
    IF ev.rrule = None THEN {Val(ev.start)}
    ELSE LET r == Val(ev.rrule)
             s == Val(ev.start).v
         IN  { DateTime(s + n * r.interval) :
                 n \in { i \in 0..MaxTime :
                           /\ s + i * r.interval <= MaxTime
                           /\ r.count # 0 => i < r.count } }

GroupOccurrences(evs) == UNION {Occurrences(evs[k]) : k \in 1..Len(evs)}

Ascending(dates) ==
    \A a \in 1..Len(dates), b \in 1..Len(dates) :
        a < b => dates[a].v < dates[b].v

----------------------------------------------------------------------------
(* C1: a request that supplies both show and hide is answered with the     *)
(* parameter error and a client error status (4xx), and no source is       *)
(* fetched.                                                                *)
C1_BothParamsIsClientError ==
    (Done /\ showParam.supplied /\ hideParam.supplied)
        => /\ response.kind = "ParamError"
           /\ response.status \in 400..499
           /\ fetched = <<>>

(* C2: when some source descriptor, at any position, has no Id, get_cal    *)
(* answers the configuration error and has fetched no source at all.       *)
C2_ConfigErrorBeforeAnyFetch ==
    (\E k \in 1..Len(calendars) : calendars[k].Id = None)
        => /\ fetched = <<>>
           /\ Done /\ response.kind # "ParamError"
                 => response.kind = "ConfigError"

(* C3: once the fetch or the parse of a source has failed, get_cal has     *)
(* returned: a server error that names that source's Id, with no calendar  *)
(* body, and no source after that one has been fetched.                    *)
C3_AbortAtFailedSource ==
    failed # None
        => /\ Done
           /\ response.kind \in {"FetchError", "ParseError"}
           /\ response.status \in 500..599
           /\ response.id = calendars[Val(failed)].Id
           /\ response.body = <<>>
           /\ fetched # <<>>
           /\ fetched[Len(fetched)] = Val(failed)
           /\ \A k \in 1..Len(fetched) : fetched[k] <= Val(failed)

C3_Witness ==
    /\ failed = Some(2)
    /\ fetched = <<1, 2>>
    /\ combined_cal # <<>>
    /\ response.kind = "ParseError"

(* C4: of the events staged from deduplicating sources under one final     *)
(* UID, the collection handed to the merger holds the last one processed,  *)
(* once, and no earlier one; the emitted calendar holds no earlier one.    *)
C4_LastStagedWins ==
    \A k \in 1..Len(log) :
        log[k].outcome = "staged"
            => /\ log[k].ref \in Refs(temp_cal) <=> ~Superseded(k)
               /\ Flushed =>
                    /\ log[k].ref \in Refs(combined_cal) <=> ~Superseded(k)
                    /\ Cardinality({m \in 1..Len(combined_cal) :
                          combined_cal[m].uid = log[k].uid
                          /\ SourceOf(combined_cal[m].ref).FilterDuplicates})
                         = 1
               /\ Answered("Calendar") /\ log[k].ref \in Refs(response.body)
                    => ~Superseded(k)

C4_Witness ==
    /\ Answered("Calendar")
    /\ \E k \in 1..Len(log) :
          /\ log[k].outcome = "staged"
          /\ Superseded(k)
          /\ \E m \in (k + 1)..Len(log) :
                /\ log[m].outcome = "staged"
                /\ log[m].uid = log[k].uid
                /\ log[m].ref \in Refs(response.body)

(* C5, as claimed: every event of a source without FilterDuplicates that   *)
(* passes the filter and the transformer is in the emitted calendar.       *)
C5_AllAppendedEmitted ==
    Answered("Calendar")
        => \A k \in 1..Len(log) :
              log[k].outcome = "appended"
                  => log[k].ref \in Refs(response.body)

(* C5, amended: every such event is in the collection handed to the        *)
(* merger, once, whatever UIDs it shares; it is in the emitted calendar    *)
(* unless an earlier event of the collection has its RELATED-TO value, in  *)
(* which case the merger emits that group's first member and not it.       *)
C5_AppendedEmittedUnlessFolded ==
    \A k \in 1..Len(log) :
        log[k].outcome = "appended"
            => /\ Cardinality({m \in 1..Len(combined_cal) :
                     combined_cal[m].ref = log[k].ref}) = 1
               /\ Answered("Calendar")
                    => /\ log[k].ref \in Refs(response.body)
                            <=> ~Folded(log[k].ref)
                       /\ Cardinality({m \in 1..Len(response.body) :
                             response.body[m].ref = log[k].ref}) <= 1

C5_Witness ==
    /\ Answered("Calendar")
    /\ \E k \in 1..Len(log), m \in 1..Len(log) :
          /\ k < m
          /\ log[k].outcome = "appended"
          /\ log[m].outcome = "appended"
          /\ log[k].uid = log[m].uid
          /\ {log[k].ref, log[m].ref} \subseteq Refs(response.body)

C7_RetentionBoundary ==
    \A k \in 1..Len(log) :
        LET e == RawOf(log[k].ref)
            plain == days_history > 0 /\ e.dtend # None /\ e.rrule = None
        IN  /\ plain /\ DateOf(Val(e.dtend)) = today - days_history
                 => log[k].outcome # "filtered"
            /\ plain /\ DateOf(Val(e.dtend)) = today - days_history - 1
                 => log[k].outcome = "filtered"
            /\ e.rrule # None => log[k].outcome # "filtered"
            /\ days_history = 0 => log[k].outcome # "filtered"

C7_Witness ==
    /\ Answered("Calendar")
    /\ days_history > 0
    /\ \E k \in 1..Len(log) :
          LET e == RawOf(log[k].ref)
          IN  /\ e.dtend # None
              /\ e.rrule = None
              /\ Val(e.dtend).kind = "datetime"
              /\ DateOf(Val(e.dtend)) = today - days_history
              /\ log[k].ref \in Refs(response.body)

(* C8: every emitted event has a DTEND or a DURATION, and no component     *)
(* without a classifiable DTSTART is emitted, whether or not it has a      *)
(* DTEND or DURATION of its own.                                           *)
C8_NoEventWithoutStartOrEnd ==
    Answered("Calendar")
        => /\ \A k \in 1..Len(log) :
                 RawOf(log[k].ref).start = None
                     => /\ log[k].outcome \in {"dropped", "filtered"}
                        /\ log[k].ref \notin Refs(response.body)
           /\ \A m \in 1..Len(response.body) :
                 /\ response.body[m].start # None
                 /\ response.body[m].dtend # None
                       \/ response.body[m].duration # None

\* The length of a component before padding: the fixed Duration, else its
\* own DURATION, else DTEND - DTSTART, else the default.
PrePadMinutes(cal, raw) ==
    IF cal.Duration # None THEN Val(cal.Duration)
    ELSE IF raw.duration # None THEN Val(raw.duration)
    ELSE IF raw.dtend # None THEN Val(raw.dtend).v - Val(raw.start).v
    ELSE DefaultMinutes

(* C9: for a source with PadStartMinutes P, every event with a datetime    *)
(* DTSTART is emitted with DTSTART moved P minutes earlier and a DURATION  *)
(* of its length before padding plus P, so that DTSTART + DURATION is the  *)
(* original end; an event with a date DTSTART keeps its DTSTART.           *)
C9_PadAddsExactlyP ==
    \A m \in 1..Len(response.body) :
        LET ev == response.body[m]
            raw == RawOf(ev.ref)
            cal == SourceOf(ev.ref)
        IN  IF cal.PadStartMinutes # None /\ IsDateTime(raw.start)
              THEN LET p == Val(cal.PadStartMinutes)
                       len == PrePadMinutes(cal, raw)
                   IN  /\ Val(ev.start).v = Val(raw.start).v - p
                       /\ ev.duration = Some(len + p)
                       /\ Val(ev.start).v + Val(ev.duration)
                            = Val(raw.start).v + len
              ELSE ev.start = raw.start

====
